---- MODULE Spec2Model ----
(***************************************************************************)
(* Scene-tree editor (src/src/sketch.rs): the forest of SceneObjects, the  *)
(* shared id counter, the edit-request queue, the recursive layout and     *)
(* hit-test, and the per-frame callback AppState::update.                  *)
(*                                                                         *)
(* Numbers.  The program computes in f32.  Every layout coordinate is an   *)
(* integer multiple of 10 far below 2^24, so it is exact in f32 and is     *)
(* modelled as an integer.  zoom is kept in thousandths (zoom 1.0 = 1000), *)
(* current_rotation in units of 1/60 degree (one frame at speed s adds s). *)
(*                                                                         *)
(* Specifications.  Spec is the frame driver: AppState::new, then update   *)
(* section by section (pc), with the camera at rest.  SpecOps applies      *)
(* find_and_delete_node, the layout loop and the hit-test to every forest  *)
(* of up to MaxNodes nodes.  SpecQueue applies process_requests to every   *)
(* queue of up to MaxReqs requests on every forest of up to MaxQueueNodes  *)
(* nodes.  The variables used and last are history variables: they record  *)
(* what an operation was given and what it did, and no action reads them.  *)
(***************************************************************************)
EXTENDS Integers, Sequences, FiniteSets, TLC

(* ------------------------------ bounds --------------------------------- *)
\* frames the frame driver is run for
MaxFrames == 3
\* largest value the id counter is driven to
MaxNextId == 8
\* most nodes in a drawn forest of SpecOps, labelled with ids of 1..MaxNodes
MaxNodes == 4
\* most nodes in a drawn forest of SpecQueue, with ids of 1..MaxQueueNodes
MaxQueueNodes == 2
\* longest request queue handed to process_requests in SpecQueue
MaxReqs == 3

(* --------------------------- program constants ------------------------- *)
FRAMES_PER_SECOND == 60
XS == 250
YS == 120
HitRadius == 20
RootX == 200
RootY == 100
ZoomMin == 100
ZoomMax == 2000
DefaultSpeed == 20

\* Option::None of an Option<u32>; ids are u32, so never negative
None == 0 - 1
\* Option::None of an Option<Pos2>
NoPos == <<>>
\* Option::None of an Option<&SceneObject>
NoObj == [id |-> None]

(* ------------------------------ data types ----------------------------- *)
ShapeKind == {"Square", "Circle", "Triangle"}

SceneObject_new(id, name, shape, color) ==
    [id |-> id, text |-> name, text_buffer |-> name, shape |-> shape,
     color |-> color, rotation_speed |-> DefaultSpeed, current_rotation |-> 0,
     children |-> <<>>]

AddChildReq(parent_id) == [kind |-> "AddChild", id |-> parent_id]
DeleteNodeReq(node_id) == [kind |-> "DeleteNode", id |-> node_id]

\* the sample tree of AppState::new, built with new_id() in the order of the code
SampleTree ==
    LET root == SceneObject_new(1, "Root", "Square", "RED")
        a == SceneObject_new(2, "Data", "Circle", "BLUE")
        b == SceneObject_new(3, "Render", "Triangle", "GREEN")
        a2 == [a EXCEPT !.children =
                 <<SceneObject_new(4, "Mesh", "Square", "YELLOW"),
                   SceneObject_new(5, "Texture", "Triangle", "ORANGE")>>]
        b2 == [b EXCEPT !.children =
                 <<SceneObject_new(6, "Shader", "Circle", "PURPLE")>>]
    IN  <<[root EXCEPT !.children = <<a2, b2>>]>>

(* ------------------------- views used by the claims -------------------- *)
RECURSIVE PreOrder(_)
\* the ids of a forest in depth-first pre-order (self before children)
PreOrder(v) ==
    IF v = <<>> THEN <<>>
    ELSE <<v[1].id>> \o PreOrder(v[1].children) \o PreOrder(Tail(v))

Range(s) == {s[i] : i \in DOMAIN s}

Ids(v) == Range(PreOrder(v))

UniqueIds(v) == Cardinality(Ids(v)) = Len(PreOrder(v))

RECURSIVE Nodes(_)
\* every node record of a forest, at every depth
Nodes(v) ==
    IF v = <<>> THEN {}
    ELSE {v[1]} \cup Nodes(v[1].children) \cup Nodes(Tail(v))

\* the attributes of a node without its children
Attrs(o) == [id |-> o.id, text |-> o.text, text_buffer |-> o.text_buffer,
             shape |-> o.shape, color |-> o.color,
             rotation_speed |-> o.rotation_speed,
             current_rotation |-> o.current_rotation]

RECURSIVE ParentOf(_, _, _)
\* the set of <<id, parent id, ids of its earlier siblings in order>> of a forest
ParentOf(v, parent, k) ==
    IF k > Len(v) THEN {}
    ELSE {<<v[k].id, parent, [i \in 1..(k - 1) |-> v[i].id]>>}
         \cup ParentOf(v[k].children, v[k].id, 1)
         \cup ParentOf(v, parent, k + 1)

Placement(v) == ParentOf(v, None, 1)

(* ------------------------------- lookups ------------------------------- *)
RECURSIVE find_object_by_id(_, _)
find_object_by_id(v, id) ==
    IF v = <<>> THEN NoObj
    ELSE IF v[1].id = id THEN v[1]
    ELSE LET r == find_object_by_id(v[1].children, id)
         IN  IF r.id # None THEN r ELSE find_object_by_id(Tail(v), id)

RECURSIVE WriteBack(_, _, _)
\* the forest after the object find_object_by_id_mut(v, id) refers to has been
\* overwritten with n: the first match in pre-order, nothing else
WriteBack(v, id, n) ==
    IF v = <<>> THEN <<>>
    ELSE IF v[1].id = id THEN <<n>> \o Tail(v)
    ELSE IF find_object_by_id(v[1].children, id).id # None
         THEN <<[v[1] EXCEPT !.children = WriteBack(@, id, n)]>> \o Tail(v)
         ELSE <<v[1]>> \o WriteBack(Tail(v), id, n)

(* ------------------------------- deletion ------------------------------ *)
\* Vec::remove(i)
RemoveAt(v, i) == [k \in 1..(Len(v) - 1) |-> IF k < i THEN v[k] ELSE v[k + 1]]

\* v.iter().position(|o| o.id == id): the first index, 0 for no match
Position(v, id) ==
    IF \E i \in DOMAIN v : v[i].id = id
    THEN CHOOSE i \in DOMAIN v :
            v[i].id = id /\ \A j \in 1..(i - 1) : v[j].id # id
    ELSE 0

RECURSIVE find_and_delete_node(_, _)
RECURSIVE DeleteInChildren(_, _, _)

\* the v.iter_mut().any(..) of find_and_delete_node, from element k on: it
\* stops at the first element whose children report a deletion
DeleteInChildren(v, k, id) ==
    IF k > Len(v) THEN [v |-> v, found |-> FALSE]
    ELSE LET r == find_and_delete_node(v[k].children, id)
         IN  IF r.found
             THEN [v |-> [v EXCEPT ![k].children = r.v], found |-> TRUE]
             ELSE DeleteInChildren(v, k + 1, id)

\* find_and_delete_node with the children of the deleted node promoted into
\* its place instead of being dropped with it
RECURSIVE DeletePromoting(_, _)
DeletePromoting(v, id) ==
    IF v = <<>> THEN [v |-> <<>>, found |-> FALSE]
    ELSE IF v[1].id = id
         THEN [v |-> v[1].children \o Tail(v), found |-> TRUE]
         ELSE LET r == DeletePromoting(v[1].children, id)
              IN  IF r.found
                  THEN [v |-> <<[v[1] EXCEPT !.children = r.v]>> \o Tail(v),
                        found |-> TRUE]
                  ELSE LET t == DeletePromoting(Tail(v), id)
                       IN  [v |-> <<v[1]>> \o t.v, found |-> t.found]

\* the forest after the call, and the value returned
find_and_delete_node(v, id) ==
    LET i == Position(v, id)
    IN  IF i # 0 THEN [v |-> RemoveAt(v, i), found |-> TRUE]
        ELSE DeleteInChildren(v, 1, id)

(* --------------------------- process_requests -------------------------- *)
\* the state the drain loop carries: the forest, the counter, and a log with
\* one entry per request handled (the request, whether its target was found,
\* the id it created or None, the forest and the counter after it)
DrainState(v, next_id) == [v |-> v, next_id |-> next_id, log |-> <<>>]

Logged(st, v, next_id, r, found, new_id) ==
    [v |-> v, next_id |-> next_id,
     log |-> Append(st.log, [req |-> r, found |-> found, new_id |-> new_id,
                             after |-> v, next_id |-> next_id])]

\* the AddChild arm with the new child put in front of its siblings
AddChildFirst(st, parent_id) ==
    LET p == find_object_by_id(st.v, parent_id)
        r == AddChildReq(parent_id)
    IN  IF p.id # None
        THEN LET id == st.next_id + 1
                 c == SceneObject_new(id, "New Node", "Square", "WHITE")
             IN  Logged(st, WriteBack(st.v, parent_id,
                                      [p EXCEPT !.children = <<c>> \o @]),
                        id, r, TRUE, id)
        ELSE Logged(st, st.v, st.next_id, r, FALSE, None)

\* the AddChild arm with the counter advanced before the parent is looked up
AddChildEagerId(st, parent_id) ==
    LET p == find_object_by_id(st.v, parent_id)
        r == AddChildReq(parent_id)
        id == st.next_id + 1
    IN  IF p.id # None
        THEN LET c == SceneObject_new(id, "New Node", "Square", "WHITE")
             IN  Logged(st, WriteBack(st.v, parent_id,
                                      [p EXCEPT !.children = Append(@, c)]),
                        id, r, TRUE, id)
        ELSE Logged(st, st.v, id, r, FALSE, None)

\* the AddChild arm with the id recomputed from the tree (largest id + 1)
\* instead of taken from the counter
AddChildRescan(st, parent_id) ==
    LET p == find_object_by_id(st.v, parent_id)
        r == AddChildReq(parent_id)
    IN  IF p.id # None
        THEN LET id == (CHOOSE m \in Ids(st.v) : \A j \in Ids(st.v) : j <= m) + 1
                 c == SceneObject_new(id, "New Node", "Square", "WHITE")
             IN  Logged(st, WriteBack(st.v, parent_id,
                                      [p EXCEPT !.children = Append(@, c)]),
                        id, r, TRUE, id)
        ELSE Logged(st, st.v, st.next_id, r, FALSE, None)

\* the arm EditorRequest::AddChild { parent_id }
ApplyAddChild(st, parent_id) ==
    LET p == find_object_by_id(st.v, parent_id)
        r == AddChildReq(parent_id)
    IN  IF p.id # None
        THEN LET id == st.next_id + 1
                 c == SceneObject_new(id, "New Node", "Square", "WHITE")
             IN  Logged(st, WriteBack(st.v, parent_id,
                                      [p EXCEPT !.children = Append(@, c)]),
                        id, r, TRUE, id)
        ELSE Logged(st, st.v, st.next_id, r, FALSE, None)

\* the arm EditorRequest::DeleteNode { node_id }
ApplyDeleteNode(st, node_id) ==
    LET d == find_and_delete_node(st.v, node_id)
    IN  Logged(st, d.v, st.next_id, DeleteNodeReq(node_id), d.found, None)

ApplyRequest(st, r) ==
    IF r.kind = "AddChild" THEN ApplyAddChild(st, r.id)
    ELSE ApplyDeleteNode(st, r.id)

RECURSIVE DrainLoop(_, _)
\* for r in reqs.drain(..): front to back
DrainLoop(st, reqs) ==
    IF reqs = <<>> THEN st
    ELSE DrainLoop(ApplyRequest(st, Head(reqs)), Tail(reqs))

Reverse(s) == [i \in 1..Len(s) |-> s[Len(s) + 1 - i]]

\* the drain loop taking the requests from the back of the queue
ProcessNewestFirst(v, reqs, next_id) ==
    DrainLoop(DrainState(v, next_id), Reverse(reqs)) @@ [reqs |-> <<>>]

\* the loop reading the queue without draining it
ProcessKeepQueue(v, reqs, next_id) ==
    DrainLoop(DrainState(v, next_id), reqs) @@ [reqs |-> reqs]

\* process_requests: the forest, the counter and the queue after the call
process_requests(v, reqs, next_id) ==
    DrainLoop(DrainState(v, next_id), reqs) @@ [reqs |-> <<>>]

(* -------------------------------- animate ------------------------------ *)
RECURSIVE animate(_, _)
RECURSIVE AnimateAll(_, _)

\* animate applied to every element of a sequence of nodes; dt in 1/60 s
AnimateAll(v, dt) ==
    IF v = <<>> THEN <<>> ELSE <<animate(v[1], dt)>> \o AnimateAll(Tail(v), dt)

\* animate turning the node itself and none of its descendants
AnimateSelfOnly(o, dt) ==
    [o EXCEPT !.current_rotation = @ + o.rotation_speed * dt]

animate(o, dt) ==
    [o EXCEPT !.current_rotation = @ + o.rotation_speed * dt,
              !.children = AnimateAll(@, dt)]

(* -------------------------------- layout ------------------------------- *)
EmptyMap == [k \in {} |-> <<0, 0>>]

\* HashMap::insert: the entry of an existing key is overwritten
Insert(m, k, p) == [j \in DOMAIN m \cup {k} |-> IF j = k THEN p ELSE m[j]]

Max(a, b) == IF a >= b THEN a ELSE b

RECURSIVE layout_recursive(_, _, _, _, _)
RECURSIVE LayoutChildren(_, _, _, _, _, _)

\* What one call of layout_recursive saw and did, kept per node id next to
\* the map: its arguments x and y, the cursor *cur on entry, the sum th of
\* its children's returned extents, the value h it returned and *cur on exit.
Call(x, y, cur, th, h) ==
    [x |-> x, y |-> y, cur |-> cur, th |-> th, h |-> h, cur_out |-> y + h]

\* the loop over o.children, from child k on: th accumulates the returned
\* extents, cy is both the y handed to a child and the cursor it writes
LayoutChildren(cs, k, x, cy, th, m) ==
    IF k > Len(cs) THEN [th |-> th, cy |-> cy, m |-> m]
    ELSE LET r == layout_recursive(cs[k], x, cy, cy, m)
         IN  LayoutChildren(cs, k + 1, x, r.cur, th + r.h, r.m)

\* layout_recursive placing a parent at y + th / 2, without the - YS / 2
LayoutMidExtent(o, x, y, cur, m) ==
    LET l == LayoutChildren(o.children, 1, x + XS, y, 0, m)
        p == IF o.children # <<>>
             THEN <<x, y + (l.th \div 2)>>
             ELSE <<x, cur>>
        h == Max(l.th, YS)
    IN  [h |-> h, cur |-> y + h,
         m |-> [pos |-> Insert(l.m.pos, o.id, p),
                call |-> Insert(l.m.call, o.id, Call(x, y, cur, l.th, h))]]

\* layout_recursive recording a position for the childless nodes only
LayoutLeavesOnly(o, x, y, cur, m) ==
    LET l == LayoutChildren(o.children, 1, x + XS, y, 0, m)
        h == Max(l.th, YS)
    IN  [h |-> h, cur |-> y + h,
         m |-> IF o.children # <<>> THEN l.m
               ELSE [pos |-> Insert(l.m.pos, o.id, <<x, cur>>),
                     call |-> Insert(l.m.call, o.id, Call(x, y, cur, l.th, h))]]

\* layout_recursive placing a childless node half a row below the cursor
LayoutLeafCentred(o, x, y, cur, m) ==
    LET l == LayoutChildren(o.children, 1, x + XS, y, 0, m)
        p == IF o.children # <<>>
             THEN <<x, y + (l.th \div 2) - (YS \div 2)>>
             ELSE <<x, cur + (YS \div 2)>>
        h == Max(l.th, YS)
    IN  [h |-> h, cur |-> y + h,
         m |-> [pos |-> Insert(l.m.pos, o.id, p),
                call |-> Insert(l.m.call, o.id, Call(x, y, cur, l.th, h))]]

\* layout_recursive returning the children's extent without the minimum row
LayoutNoMinRow(o, x, y, cur, m) ==
    LET l == LayoutChildren(o.children, 1, x + XS, y, 0, m)
        p == IF o.children # <<>>
             THEN <<x, y + (l.th \div 2) - (YS \div 2)>>
             ELSE <<x, cur>>
        h == l.th
    IN  [h |-> h, cur |-> y + h,
         m |-> [pos |-> Insert(l.m.pos, o.id, p),
                call |-> Insert(l.m.call, o.id, Call(x, y, cur, l.th, h))]]

\* the value returned (h), the cursor *cur and the map m after the call
layout_recursive(o, x, y, cur, m) ==
    LET l == LayoutChildren(o.children, 1, x + XS, y, 0, m)
        p == IF o.children # <<>>
             THEN <<x, y + (l.th \div 2) - (YS \div 2)>>
             ELSE <<x, cur>>
        h == Max(l.th, YS)
    IN  [h |-> h, cur |-> y + h,
         m |-> [pos |-> Insert(l.m.pos, o.id, p),
                call |-> Insert(l.m.call, o.id, Call(x, y, cur, l.th, h))]]

RECURSIVE LayoutRoots(_, _, _)
\* for o in &self.scene_objects { layout_recursive(o, 200.0, cy, &mut cy, ..) }
LayoutRoots(v, cy, m) ==
    IF v = <<>> THEN m
    ELSE LET r == layout_recursive(v[1], RootX, cy, cy, m)
         IN  LayoutRoots(Tail(v), r.cur, r.m)

\* the layout map built in a frame (pos), with the record of the calls
BuildLayout(v) == LayoutRoots(v, RootY, [pos |-> EmptyMap, call |-> EmptyMap])

(* ------------------------------- hit-test ------------------------------ *)
\* (w - p).length() < 20.0, on integer coordinates
Within(w, p) ==
    (w[1] - p[1]) * (w[1] - p[1]) + (w[2] - p[2]) * (w[2] - p[2])
        < HitRadius * HitRadius

RECURSIVE find_clicked_object(_, _, _)
RECURSIVE FirstClicked(_, _, _)

\* iter().find_map / filter_map(..).next() of find_clicked_object over a
\* sequence of nodes: the first Some in order
FirstClicked(v, w, m) ==
    IF v = <<>> THEN None
    ELSE LET r == find_clicked_object(v[1], w, m)
         IN  IF r # None THEN r ELSE FirstClicked(Tail(v), w, m)

\* find_clicked_object testing the node itself and none of its children
ClickedSelfOnly(o, w, m) ==
    IF o.id \in DOMAIN m /\ Within(w, m[o.id]) THEN o.id ELSE None

find_clicked_object(o, w, m) ==
    IF o.id \in DOMAIN m /\ Within(w, m[o.id]) THEN o.id
    ELSE FirstClicked(o.children, w, m)

(* -------------------------------- state -------------------------------- *)
VARIABLES
    scene_objects,           \* AppState.scene_objects: the forest
    next_id,                 \* AppState.next_id: the shared id counter
    requests,                \* AppState.requests: the edit-request queue
    active_settings_id,      \* AppState.active_settings_id, None or an id
    zoom,                    \* AppState.zoom, in thousandths
    camera_target,           \* AppState.camera_target, <<x, y>>
    dragging,                \* AppState.dragging
    last_pointer,            \* AppState.last_pointer, <<x, y>>
    time_since_last_update,  \* AppState.time_since_last_update, in frames
    layout,                  \* the local `layout` of the canvas closure
    pc,                      \* the section of update that runs next
    used,                    \* history: every id a node has ever held
    last                     \* history: the last operation, its input and result

vars == <<scene_objects, next_id, requests, active_settings_id, zoom,
          camera_target, dragging, last_pointer, time_since_last_update,
          layout, pc, used, last>>

camera == <<zoom, camera_target, dragging, last_pointer>>

NoLayout == [pos |-> EmptyMap, call |-> EmptyMap]

NoOp == [op |-> "none", pre |-> <<>>, pre_next |-> 0, reqs |-> <<>>,
         log |-> <<>>, arg |-> None, ret |-> None]

\* ids created by the requests of a log, in order
RECURSIVE Created(_)
Created(log) ==
    IF log = <<>> THEN <<>>
    ELSE (IF log[1].new_id # None THEN <<log[1].new_id>> ELSE <<>>)
         \o Created(Tail(log))

(* ----------------------------- AppState::new --------------------------- *)
Init ==
    /\ scene_objects = SampleTree
    /\ next_id = 6
    /\ requests = <<>>
    /\ active_settings_id = None
    /\ zoom = 1000
    /\ camera_target = <<400, 450>>
    /\ dragging = FALSE
    /\ last_pointer = <<0, 0>>
    /\ time_since_last_update = 0
    /\ layout = NoLayout
    /\ pc = "pan_zoom"
    /\ used = 1..6
    /\ last = NoOp

(* --------------------------- AppState::update -------------------------- *)
\* inputs of a frame: raw_scroll_delta.y * pixels_per_point, pointer positions
ScrollInputs == {0 - 2000, 0, 2000}
PointerPositions == {<<200, 220>>, <<450, 340>>, <<450, 460>>}

\* ui.max_rect().min + ui.max_rect().size() / 2 of the canvas
CanvasCenter == <<400, 450>>

\* a clamp that holds the lower end only
ClampBelow(x, lo, hi) == IF x < lo THEN lo ELSE x

Clamp(x, lo, hi) == IF x < lo THEN lo ELSE IF x > hi THEN hi ELSE x

\* d / zoom for a zoom in thousandths, in whole units: exact for the zooms
\* 0.1, 0.5, 1.0 and 2.0 and rounded down to a whole unit for the others
OverZoom(d, z) == (d * 1000) \div z

\* pan & zoom with the dragging flag never cleared on button up
PanZoomSticky(scroll, secondary_down, hover_pos) ==
    /\ pc = "pan_zoom"
    /\ time_since_last_update < MaxFrames
    /\ time_since_last_update' = time_since_last_update + 1
    /\ LET z == Clamp(zoom + scroll, ZoomMin, ZoomMax)
           start == secondary_down /\ ~dragging
           d1 == IF start THEN TRUE ELSE dragging
           lp1 == IF start /\ hover_pos # NoPos THEN hover_pos ELSE last_pointer
           moved == d1 /\ hover_pos # NoPos
       IN  /\ zoom' = z
           /\ camera_target' =
                IF moved
                THEN <<camera_target[1] - OverZoom(hover_pos[1] - lp1[1], z),
                       camera_target[2] - OverZoom(hover_pos[2] - lp1[2], z)>>
                ELSE camera_target
           /\ last_pointer' = IF moved THEN hover_pos ELSE lp1
           /\ dragging' = d1
    /\ last' = [NoOp EXCEPT !.op = "pan",
                            !.pre = [zoom |-> zoom, camera_target |-> camera_target,
                                     dragging |-> dragging,
                                     last_pointer |-> last_pointer],
                            !.arg = [scroll |-> scroll,
                                     secondary_down |-> secondary_down,
                                     hover_pos |-> hover_pos]]
    /\ pc' = "animate"
    /\ UNCHANGED <<scene_objects, next_id, requests, active_settings_id,
                   layout, used>>

\* pan & zoom, lines 115-136
PanZoom(scroll, secondary_down, hover_pos) ==
    /\ pc = "pan_zoom"
    /\ time_since_last_update < MaxFrames
    /\ time_since_last_update' = time_since_last_update + 1
    /\ LET z == Clamp(zoom + scroll, ZoomMin, ZoomMax)
           start == secondary_down /\ ~dragging
           d1 == IF start THEN TRUE ELSE dragging
           lp1 == IF start /\ hover_pos # NoPos THEN hover_pos ELSE last_pointer
           moved == d1 /\ hover_pos # NoPos
       IN  /\ zoom' = z
           /\ camera_target' =
                IF moved
                THEN <<camera_target[1] - OverZoom(hover_pos[1] - lp1[1], z),
                       camera_target[2] - OverZoom(hover_pos[2] - lp1[2], z)>>
                ELSE camera_target
           /\ last_pointer' = IF moved THEN hover_pos ELSE lp1
           /\ dragging' = IF d1 /\ ~secondary_down THEN FALSE ELSE d1
    /\ last' = [NoOp EXCEPT !.op = "pan",
                            !.pre = [zoom |-> zoom, camera_target |-> camera_target,
                                     dragging |-> dragging,
                                     last_pointer |-> last_pointer],
                            !.arg = [scroll |-> scroll,
                                     secondary_down |-> secondary_down,
                                     hover_pos |-> hover_pos]]
    /\ pc' = "animate"
    /\ UNCHANGED <<scene_objects, next_id, requests, active_settings_id,
                   layout, used>>

\* for o in &mut self.scene_objects { animate(o, dt) }, lines 138-140
Animate ==
    /\ pc = "animate"
    /\ scene_objects' = AnimateAll(scene_objects, 1)
    /\ last' = NoOp
    /\ pc' = "canvas"
    /\ UNCHANGED <<next_id, requests, active_settings_id, camera,
                   time_since_last_update, layout, used>>

\* the world point of a screen position, lines 165-168
ToWorld(pos) ==
    <<OverZoom(pos[1] - CanvasCenter[1], zoom) + camera_target[1],
      OverZoom(pos[2] - CanvasCenter[2], zoom) + camera_target[2]>>

\* the canvas closure, lines 143-176: layout, (draw,) hit-test of a click
Canvas(clicked, interact_pos) ==
    /\ pc = "canvas"
    /\ layout' = BuildLayout(scene_objects)
    /\ active_settings_id' =
         IF clicked /\ interact_pos # NoPos
         THEN FirstClicked(scene_objects, ToWorld(interact_pos), layout'.pos)
         ELSE active_settings_id
    /\ last' = IF clicked /\ interact_pos # NoPos
               THEN [NoOp EXCEPT !.op = "click", !.pre = active_settings_id,
                                     !.arg = ToWorld(interact_pos)]
               ELSE NoOp
    /\ pc' = "inspector"
    /\ UNCHANGED <<scene_objects, next_id, requests, camera,
                   time_since_last_update, used>>

\* what the user does to the widgets of the settings window in one frame
InspectorEdits ==
    {[kind |-> "none", val |-> 0], [kind |-> "type", val |-> "Draft"],
     [kind |-> "apply", val |-> 0], [kind |-> "color", val |-> "PICKED"]}
    \cup {[kind |-> "shape", val |-> k] : k \in {"Triangle"}}
    \cup {[kind |-> "speed", val |-> s] : s \in {0 - 180}}

EditObject(obj, e) ==
    CASE e.kind = "type" -> [obj EXCEPT !.text_buffer = e.val]
      [] e.kind = "apply" -> [obj EXCEPT !.text = obj.text_buffer]
      [] e.kind = "shape" -> [obj EXCEPT !.shape = e.val]
      [] e.kind = "speed" -> [obj EXCEPT !.rotation_speed = e.val]
      [] e.kind = "color" -> [obj EXCEPT !.color = e.val]
      [] OTHER -> obj

\* the inspector applying Delete Node to the forest at once instead of queueing it
InspectorImmediate(e, add_clicked, delete_clicked) ==
    /\ pc = "inspector"
    /\ add_clicked => next_id < MaxNextId
    /\ LET id == active_settings_id
           obj == find_object_by_id(scene_objects, id)
           w == WriteBack(scene_objects, id, EditObject(obj, e))
       IN  IF id # None /\ obj.id # None
           THEN /\ scene_objects' =
                     IF delete_clicked THEN find_and_delete_node(w, id).v ELSE w
                /\ requests' = requests
                     \o (IF add_clicked THEN <<AddChildReq(id)>> ELSE <<>>)
                /\ active_settings_id' = IF delete_clicked THEN None ELSE id
           ELSE /\ e.kind = "none" /\ ~add_clicked /\ ~delete_clicked
                /\ UNCHANGED <<scene_objects, requests, active_settings_id>>
    /\ layout' = NoLayout
    /\ last' = NoOp
    /\ pc' = "drain"
    /\ UNCHANGED <<next_id, camera, time_since_last_update, used>>

\* the inspector leaving the selection on the node it queues for deletion
InspectorKeepSelection(e, add_clicked, delete_clicked) ==
    /\ pc = "inspector"
    /\ add_clicked => next_id < MaxNextId
    /\ LET id == active_settings_id
           obj == find_object_by_id(scene_objects, id)
       IN  IF id # None /\ obj.id # None
           THEN /\ scene_objects' = WriteBack(scene_objects, id, EditObject(obj, e))
                /\ requests' = requests
                     \o (IF add_clicked THEN <<AddChildReq(id)>> ELSE <<>>)
                     \o (IF delete_clicked THEN <<DeleteNodeReq(id)>> ELSE <<>>)
                /\ active_settings_id' = id
           ELSE /\ e.kind = "none" /\ ~add_clicked /\ ~delete_clicked
                /\ UNCHANGED <<scene_objects, requests, active_settings_id>>
    /\ layout' = NoLayout
    /\ last' = NoOp
    /\ pc' = "drain"
    /\ UNCHANGED <<next_id, camera, time_since_last_update, used>>

\* the inspector with the Delete Node button handled before Add Child
InspectorDeleteFirst(e, add_clicked, delete_clicked) ==
    /\ pc = "inspector"
    /\ add_clicked => next_id < MaxNextId
    /\ LET id == active_settings_id
           obj == find_object_by_id(scene_objects, id)
       IN  IF id # None /\ obj.id # None
           THEN /\ scene_objects' = WriteBack(scene_objects, id, EditObject(obj, e))
                /\ requests' = requests
                     \o (IF delete_clicked THEN <<DeleteNodeReq(id)>> ELSE <<>>)
                     \o (IF add_clicked THEN <<AddChildReq(id)>> ELSE <<>>)
                /\ active_settings_id' = IF delete_clicked THEN None ELSE id
           ELSE /\ e.kind = "none" /\ ~add_clicked /\ ~delete_clicked
                /\ UNCHANGED <<scene_objects, requests, active_settings_id>>
    /\ layout' = NoLayout
    /\ last' = NoOp
    /\ pc' = "drain"
    /\ UNCHANGED <<next_id, camera, time_since_last_update, used>>

\* the inspector, lines 179-234
Inspector(e, add_clicked, delete_clicked) ==
    /\ pc = "inspector"
    /\ add_clicked => next_id < MaxNextId
    /\ LET id == active_settings_id
           obj == find_object_by_id(scene_objects, id)
       IN  IF id # None /\ obj.id # None
           THEN /\ scene_objects' = WriteBack(scene_objects, id, EditObject(obj, e))
                /\ requests' = requests
                     \o (IF add_clicked THEN <<AddChildReq(id)>> ELSE <<>>)
                     \o (IF delete_clicked THEN <<DeleteNodeReq(id)>> ELSE <<>>)
                /\ active_settings_id' = IF delete_clicked THEN None ELSE id
           ELSE /\ e.kind = "none" /\ ~add_clicked /\ ~delete_clicked
                /\ UNCHANGED <<scene_objects, requests, active_settings_id>>
    /\ layout' = NoLayout
    /\ last' = NoOp
    /\ pc' = "drain"
    /\ UNCHANGED <<next_id, camera, time_since_last_update, used>>

\* process_requests(&mut scene_objects, &mut requests, &mut next_id), lines 236-240
Drain ==
    /\ pc = "drain"
    /\ LET r == process_requests(scene_objects, requests, next_id)
       IN  /\ scene_objects' = r.v
           /\ requests' = r.reqs
           /\ next_id' = r.next_id
           /\ used' = used \cup Range(Created(r.log))
           /\ last' = [NoOp EXCEPT !.op = "process", !.pre = scene_objects,
                                   !.pre_next = next_id, !.reqs = requests,
                                   !.log = r.log, !.arg = used]
    /\ pc' = "pan_zoom"
    /\ UNCHANGED <<active_settings_id, camera, time_since_last_update, layout>>

\* The frame driver with the camera at rest (no scroll, secondary button up):
\* every frame runs its five sections in the order of the code.
Next ==
    \/ \E p \in PointerPositions \cup {NoPos} : PanZoom(0, FALSE, p)
    \/ Animate
    \/ \E c \in BOOLEAN, p \in PointerPositions \cup {NoPos} : Canvas(c, p)
    \/ \E e \in InspectorEdits, a \in BOOLEAN, d \in BOOLEAN : Inspector(e, a, d)
    \/ Drain

Spec == Init /\ [][Next]_vars

\* raw_scroll_delta.y * pixels_per_point of the frames of SpecCamera
CameraScrolls == ScrollInputs \cup {0 - 500, 500}

\* The frame driver with the camera driven by scroll, secondary button and
\* pointer, and the inspector left alone.
NextCamera ==
    \/ \E s \in CameraScrolls, b \in BOOLEAN, p \in PointerPositions \cup {NoPos} :
          PanZoom(s, b, p)
    \/ Animate
    \/ \E c \in BOOLEAN, p \in PointerPositions \cup {NoPos} : Canvas(c, p)
    \/ Inspector([kind |-> "none", val |-> 0], FALSE, FALSE)
    \/ Drain

SpecCamera == Init /\ [][NextCamera]_vars

(* ------------- the operations on their own, on drawn forests ----------- *)
\* A node of a drawn forest: the attributes depend on the id, so that a node
\* taking the place of another shows.
DrawnNode(id, children) ==
    [SceneObject_new(id, "New Node",
                     CHOOSE k \in ShapeKind :
                        k = <<"Square", "Circle", "Triangle">>[(id % 3) + 1],
                     "WHITE")
       EXCEPT !.rotation_speed = 10 * id, !.current_rotation = id,
              !.children = children]

RECURSIVE ForestsOver(_)
\* every forest (any number of roots, any shape, any order) whose nodes carry
\* exactly the ids of S, each once
ForestsOver(S) ==
    IF S = {} THEN {<<>>}
    ELSE UNION {
           UNION { { <<DrawnNode(r, kids)>> \o rest :
                       kids \in ForestsOver(T \ {r}), rest \in ForestsOver(S \ T) }
                   : r \in T }
           : T \in (SUBSET S) \ {{}} }

\* every forest of at most n nodes with ids of 1..n, each id at most once
ForestsUpTo(n) == UNION { ForestsOver(S) : S \in SUBSET (1..n) }

DrawnForests == ForestsUpTo(MaxNodes)

QueueForests == ForestsUpTo(MaxQueueNodes)

\* request targets: ids a drawn forest may or may not hold, and the id the
\* first applied AddChild creates
Targets == {1, 2, MaxQueueNodes + 1}

Requests == {AddChildReq(i) : i \in Targets} \cup {DeleteNodeReq(i) : i \in Targets}

RequestQueues == UNION { [1..n -> Requests] : n \in 0..MaxReqs }

\* a drawn forest v whose ids are at most n, with the counter at n and
\* every id up to n counted as used
InitOn(v, n) ==
    /\ scene_objects = v
    /\ next_id = n
    /\ requests = <<>>
    /\ active_settings_id = None
    /\ zoom = 1000
    /\ camera_target = <<400, 450>>
    /\ dragging = FALSE
    /\ last_pointer = <<0, 0>>
    /\ time_since_last_update = 0
    /\ layout = NoLayout
    /\ pc = "ops"
    /\ used = 1..n
    /\ last = NoOp

InitOps == \E v \in DrawnForests : InitOn(v, MaxNodes)

InitQueue == \E v \in QueueForests : InitOn(v, MaxQueueNodes)

\* process_requests on a queue of any requests
OpsProcess(reqs) ==
    /\ pc = "ops"
    /\ LET r == process_requests(scene_objects, reqs, next_id)
       IN  /\ scene_objects' = r.v
           /\ requests' = r.reqs
           /\ next_id' = r.next_id
           /\ used' = used \cup Range(Created(r.log))
           /\ last' = [NoOp EXCEPT !.op = "process", !.pre = scene_objects,
                                   !.pre_next = next_id, !.reqs = reqs,
                                   !.log = r.log, !.arg = used]
    /\ pc' = "done"
    /\ UNCHANGED <<active_settings_id, camera, time_since_last_update, layout>>

\* find_and_delete_node(v, id) on any id
OpsDelete(id) ==
    /\ pc = "ops"
    /\ LET d == find_and_delete_node(scene_objects, id)
       IN  /\ scene_objects' = d.v
           /\ last' = [NoOp EXCEPT !.op = "delete", !.pre = scene_objects,
                                   !.pre_next = next_id, !.arg = id,
                                   !.ret = d.found]
    /\ pc' = "done"
    /\ UNCHANGED <<next_id, requests, active_settings_id, camera,
                   time_since_last_update, layout, used>>

\* the layout loop of the canvas closure, lines 146-150
OpsLayout ==
    /\ pc = "ops"
    /\ layout' = BuildLayout(scene_objects)
    /\ pc' = "laid"
    /\ UNCHANGED <<scene_objects, next_id, requests, active_settings_id,
                   camera, time_since_last_update, used, last>>

\* the world points tried: the anchor of a node, moved by <<dx, dy>>
Offsets == {<<0, 0>>, <<12, 15>>, <<12, 16>>, <<0, 0 - 120>>}

\* the hit-test of lines 169-173 on a world point w
OpsHitTest(w) ==
    /\ pc = "laid"
    /\ last' = [NoOp EXCEPT !.op = "hit", !.pre = scene_objects, !.arg = w,
                            !.ret = FirstClicked(scene_objects, w, layout.pos)]
    /\ pc' = "done"
    /\ UNCHANGED <<scene_objects, next_id, requests, active_settings_id,
                   camera, time_since_last_update, layout, used>>

\* elapsed times handed to animate, in 1/60 s: one frame, and half a second
AnimateSteps == {1, 30}

\* animate(o, dt) on every root, as lines 138-140 apply it
OpsAnimate(dt) ==
    /\ pc = "ops"
    /\ scene_objects' = AnimateAll(scene_objects, dt)
    /\ last' = [NoOp EXCEPT !.op = "animate", !.pre = scene_objects, !.arg = dt]
    /\ pc' = "done"
    /\ UNCHANGED <<next_id, requests, active_settings_id, camera,
                   time_since_last_update, layout, used>>

NextQueue == \E reqs \in RequestQueues : OpsProcess(reqs)

SpecQueue == InitQueue /\ [][NextQueue]_vars

NextOps ==
    \/ \E id \in 1..(MaxNodes + 1) : OpsDelete(id)
    \/ OpsLayout
    \/ \E dt \in AnimateSteps : OpsAnimate(dt)
    \/ \E n \in DOMAIN layout.pos, d \in Offsets :
          OpsHitTest(<<layout.pos[n][1] + d[1], layout.pos[n][2] + d[2]>>)

SpecOps == InitOps /\ [][NextOps]_vars

(* ------------------------------ the claims ----------------------------- *)
\* the ids of i and of every descendant of i in the forest v
SubtreeIds(v, i) == {i} \cup Ids(find_object_by_id(v, i).children)

\* a placement with the nodes of D taken out, the order of the rest kept
PlacementWithout(pl, D) ==
    {<<e[1], e[2], SelectSeq(e[3], LAMBDA x : x \notin D)>> :
        e \in {f \in pl : f[1] \notin D}}

AttrsOf(v) == {Attrs(o) : o \in Nodes(v)}

\* the forest a request of a log was applied to
Before(l, k) == IF k = 1 THEN l.pre ELSE l.log[k - 1].after
NextBefore(l, k) == IF k = 1 THEN l.pre_next ELSE l.log[k - 1].next_id

\* C1: in every state of the frame driver the ids of the forest are unique
\* and at most next_id; next_id never decreases, and an id that appears in
\* the forest in a step has never been held by a node before.
C1_IdsUniqueNeverReused ==
    /\ [](UniqueIds(scene_objects) /\ \A i \in Ids(scene_objects) : i <= next_id)
    /\ [][/\ next_id' >= next_id
          /\ \A i \in Ids(scene_objects') \ Ids(scene_objects) : i \notin used]_vars

\* a frame has ended with a sample node deleted and a node created after it
C1_Witness ==
    /\ pc = "pan_zoom"
    /\ \E i \in 1..6 : i \notin Ids(scene_objects)
    /\ \E j \in Ids(scene_objects) : j > 6
    /\ last.op = "process" /\ Created(last.log) # <<>>
    /\ \E i \in 1..6 : i \notin Ids(last.pre)

\* the log entries of AddChild requests whose parent was in the forest they
\* were applied to
AppliedAdds(l) ==
    {k \in DOMAIN l.log :
        l.log[k].req.kind = "AddChild" /\ l.log[k].req.id \in Ids(Before(l, k))}

\* C2: each AddChild applied by process_requests adds exactly one to next_id
\* and gives its node the new counter value, an id no node has held before:
\* the ids created by one call are pre_next + 1, pre_next + 2, ... in order,
\* whatever DeleteNode requests lie between.
C2_AddIncrementsOnceFreshId ==
    last.op = "process" =>
        LET c == Created(last.log)
        IN  /\ Len(c) = Cardinality(AppliedAdds(last))
            /\ next_id = last.pre_next + Len(c)
            /\ \A k \in AppliedAdds(last) :
                  /\ last.log[k].next_id = NextBefore(last, k) + 1
                  /\ last.log[k].new_id = last.log[k].next_id
                  /\ last.log[k].new_id \in Ids(last.log[k].after)
                  /\ last.log[k].new_id \notin Ids(Before(last, k))
            /\ \A k \in DOMAIN c : c[k] = last.pre_next + k /\ c[k] \notin last.arg

\* two AddChild requests were applied with a DeleteNode that removed a node
\* between them
C2_Witness ==
    /\ last.op = "process"
    /\ Len(last.reqs) = 3
    /\ last.reqs[1].kind = "AddChild" /\ last.log[1].found
    /\ last.reqs[2].kind = "DeleteNode" /\ last.log[2].found
    /\ last.reqs[3].kind = "AddChild" /\ last.log[3].found
    /\ Created(last.log) = <<last.pre_next + 1, last.pre_next + 2>>

\* C3: find_and_delete_node(F, i) for an id i of F returns true; the result
\* holds exactly the nodes of F outside the subtree of i, each with its
\* attributes, its parent and its order among its surviving siblings.
C3_DeleteRemovesSubtreeOnly ==
    (last.op = "delete" /\ last.arg \in Ids(last.pre)) =>
        LET D == SubtreeIds(last.pre, last.arg)
        IN  /\ last.ret = TRUE
            /\ UniqueIds(scene_objects)
            /\ Ids(scene_objects) = Ids(last.pre) \ D
            /\ AttrsOf(scene_objects) =
                  {a \in AttrsOf(last.pre) : a.id \notin D}
            /\ Placement(scene_objects) = PlacementWithout(Placement(last.pre), D)

\* a node with a child was deleted from a forest in which other nodes remain
C3_Witness ==
    /\ last.op = "delete" /\ last.arg \in Ids(last.pre)
    /\ find_object_by_id(last.pre, last.arg).children # <<>>
    /\ scene_objects # <<>>
    /\ last.ret = TRUE

\* C4: an AddChild whose parent exists adds exactly one node, as the last
\* child of that parent, childless and with the default attributes; every
\* node that was there keeps its attributes, parent and place.
C4_AddChildAppendsLast ==
    last.op = "process" =>
        \A k \in AppliedAdds(last) :
            LET F == Before(last, k)
                G == last.log[k].after
                P == last.log[k].req.id
                n == last.log[k].new_id
                kids == find_object_by_id(F, P).children
            IN  /\ Ids(G) = Ids(F) \cup {n} /\ n \notin Ids(F)
                /\ Len(PreOrder(G)) = Len(PreOrder(F)) + 1
                /\ Placement(G) = Placement(F)
                      \cup {<<n, P, [i \in 1..Len(kids) |-> kids[i].id]>>}
                /\ find_object_by_id(G, n) =
                      SceneObject_new(n, "New Node", "Square", "WHITE")
                /\ AttrsOf(G) = AttrsOf(F)
                      \cup {Attrs(SceneObject_new(n, "New Node", "Square", "WHITE"))}

\* an AddChild was applied to a parent that already had a child
C4_Witness ==
    /\ last.op = "process"
    /\ \E k \in AppliedAdds(last) :
          /\ find_object_by_id(Before(last, k), last.log[k].req.id).children # <<>>
          /\ last.log[k].new_id \in Ids(last.log[k].after)

\* C5: the queue is empty wherever a frame is not between its inspector and
\* its drain; the drain handled every queued request once, in order, and
\* left the queue empty, so the next frame starts with nothing carried over.
C5_QueueDrainedEveryFrame ==
    /\ pc # "drain" => requests = <<>>
    /\ (pc = "pan_zoom" /\ last.op = "process") =>
          /\ Len(last.log) = Len(last.reqs)
          /\ \A k \in DOMAIN last.reqs :
                last.log[k].req = last.reqs[k] /\ last.log[k].found

\* a frame has ended whose inspector queued an AddChild and a DeleteNode
C5_Witness ==
    /\ pc = "pan_zoom"
    /\ last.op = "process"
    /\ Len(last.reqs) = 2
    /\ requests = <<>>

\* C6: process_requests handles the queue front to back in one pass, and
\* the order matters for one id P of the forest: <<AddChild P, DeleteNode P>>
\* creates the child (the counter advances) and then removes P with it,
\* <<DeleteNode P, AddChild P>> removes P and the AddChild finds no parent.
C6_EnqueueOrderSignificant ==
    last.op = "process" =>
        /\ Len(last.log) = Len(last.reqs)
        /\ \A k \in DOMAIN last.reqs : last.log[k].req = last.reqs[k]
        /\ \A P \in Ids(last.pre) :
              LET rest == Ids(last.pre) \ SubtreeIds(last.pre, P)
              IN  /\ last.reqs = <<AddChildReq(P), DeleteNodeReq(P)>> =>
                        /\ last.log[1].found /\ last.log[2].found
                        /\ last.log[1].new_id = last.pre_next + 1
                        /\ <<last.pre_next + 1, P>> \in
                              {<<e[1], e[2]>> : e \in Placement(last.log[1].after)}
                        /\ Ids(scene_objects) = rest
                        /\ next_id = last.pre_next + 1
                  /\ last.reqs = <<DeleteNodeReq(P), AddChildReq(P)>> =>
                        /\ last.log[1].found /\ ~last.log[2].found
                        /\ last.log[2].new_id = None
                        /\ last.log[2].after = last.log[1].after
                        /\ Ids(scene_objects) = rest
                        /\ next_id = last.pre_next

\* the queue <<AddChild P, DeleteNode P>> was handled for a P of the forest
C6_Witness ==
    /\ last.op = "process"
    /\ \E P \in Ids(last.pre) :
          /\ last.reqs = <<AddChildReq(P), DeleteNodeReq(P)>>
          /\ next_id = last.pre_next + 1
          /\ P \notin Ids(scene_objects)

\* the queue <<DeleteNode P, AddChild P>> was handled for a P of the forest
C6_WitnessDeleteFirst ==
    /\ last.op = "process"
    /\ \E P \in Ids(last.pre) :
          /\ last.reqs = <<DeleteNodeReq(P), AddChildReq(P)>>
          /\ next_id = last.pre_next

\* C7: a request whose target is not in the forest it is applied to changes
\* neither the forest nor the counter and reports not found; the requests
\* after it are still handled, each finding its target when it is there.
C7_MissingTargetNoOp ==
    last.op = "process" =>
        /\ Len(last.log) = Len(last.reqs)
        /\ \A k \in DOMAIN last.log :
              /\ last.log[k].found = (last.reqs[k].id \in Ids(Before(last, k)))
              /\ last.reqs[k].id \notin Ids(Before(last, k)) =>
                    /\ last.log[k].after = Before(last, k)
                    /\ last.log[k].next_id = NextBefore(last, k)
                    /\ last.log[k].new_id = None

\* an AddChild and a DeleteNode with missing targets were followed by a
\* request that found its target and changed the forest
C7_Witness ==
    /\ last.op = "process"
    /\ Len(last.reqs) = 3
    /\ last.reqs[1].kind = "AddChild" /\ ~last.log[1].found
    /\ last.reqs[2].kind = "DeleteNode" /\ ~last.log[2].found
    /\ last.log[3].found
    /\ scene_objects # last.pre

\* C8: the layout map built for a forest has exactly the ids of the forest
\* as its keys.
C8_LayoutKeysAreForestIds ==
    pc = "laid" => DOMAIN layout.pos = Ids(scene_objects)

\* a layout was built for a forest of several roots, one of them with a child
C8_Witness ==
    /\ pc = "laid"
    /\ Len(scene_objects) >= 2
    /\ \E i \in DOMAIN scene_objects : scene_objects[i].children # <<>>
    /\ DOMAIN layout.pos = Ids(scene_objects)

\* the sum of the extents layout_recursive returned for the nodes of cs
RECURSIVE SumExtents(_, _)
SumExtents(cs, call) ==
    IF cs = <<>> THEN 0 ELSE call[cs[1].id].h + SumExtents(Tail(cs), call)

Parents(v) == {o \in Nodes(v) : o.children # <<>>}

\* C9 as claimed: a node with children lies at the midpoint of the interval
\* that starts at its start cursor y and is as long as the sum of the
\* extents returned for its children.
C9_ParentAtMidExtent ==
    pc = "laid" =>
        \A o \in Parents(scene_objects) :
            2 * layout.pos[o.id][2] =
                2 * layout.call[o.id].y + SumExtents(o.children, layout.call)

\* C9 amended: a node with children lies half a minimum row height (YS / 2)
\* above that midpoint: at y + th / 2 - YS / 2, the midpoint of the interval
\* that starts at y and is th - YS long, th being the sum of the extents
\* returned for its children.
C9_ParentHalfRowAboveMidExtent ==
    pc = "laid" =>
        \A o \in Parents(scene_objects) :
            /\ layout.call[o.id].th = SumExtents(o.children, layout.call)
            /\ 2 * layout.pos[o.id][2] =
                  2 * layout.call[o.id].y + layout.call[o.id].th - YS

\* a layout was built for a forest in which a node has two children
C9_Witness ==
    /\ pc = "laid"
    /\ \E o \in Parents(scene_objects) :
          Len(o.children) >= 2 /\ o.id \in DOMAIN layout.pos

\* the place of an id in the pre-order of the forest
PreIndex(v, i) == CHOOSE k \in DOMAIN PreOrder(v) : PreOrder(v)[k] = i

\* C10: the hit-test of the forest at the anchor of a node n returns n, or a
\* node before n in pre-order with the same anchor; never no match.
C10_HitAtAnchorFindsNode ==
    last.op = "hit" =>
        \A n \in Ids(scene_objects) :
            (n \in DOMAIN layout.pos /\ last.arg = layout.pos[n]) =>
                /\ last.ret # None
                /\ \/ last.ret = n
                   \/ /\ last.ret \in Ids(scene_objects)
                      /\ PreIndex(scene_objects, last.ret) < PreIndex(scene_objects, n)
                      /\ layout.pos[last.ret] = layout.pos[n]

\* the hit-test ran at the anchor of a node that is not a root
C10_Witness ==
    /\ last.op = "hit"
    /\ \E n \in Ids(scene_objects) :
          /\ last.arg = layout.pos[n]
          /\ \A i \in DOMAIN scene_objects : scene_objects[i].id # n
          /\ last.ret = n

\* s is t with requests appended
Extends(s, t) == Len(s) >= Len(t) /\ SubSeq(s, 1, Len(t)) = t

\* C11: a frame runs pan & zoom, animate, canvas (layout, hit-test),
\* inspector, drain, in that order; the camera moves only in the first, the
\* queue grows only in the inspector, and nodes are added to or removed
\* from the forest only in the drain, so the layout map of a frame covers
\* the very forest its hit-test and its inspector see.
C11_FixedOrderMutationInDrain ==
    /\ [][/\ pc = "pan_zoom" => pc' = "animate"
          /\ pc = "animate" => pc' = "canvas"
          /\ pc = "canvas" => pc' = "inspector"
          /\ pc = "inspector" => pc' = "drain"
          /\ pc = "drain" => pc' = "pan_zoom"
          /\ pc # "pan_zoom" => camera' = camera
          /\ pc # "drain" => /\ Placement(scene_objects') = Placement(scene_objects)
                             /\ next_id' = next_id
          /\ pc \in {"pan_zoom", "canvas"} => scene_objects' = scene_objects
          /\ pc \notin {"inspector", "drain"} => requests' = requests
          /\ pc = "inspector" => Extends(requests', requests)]_vars
    /\ [](pc = "inspector" => DOMAIN layout.pos = Ids(scene_objects))

\* in a second frame the inspector has queued a DeleteNode, the forest still
\* being the one the frame laid out
C11_Witness ==
    /\ pc = "drain"
    /\ time_since_last_update >= 2
    /\ \E k \in DOMAIN requests :
          requests[k].kind = "DeleteNode" /\ requests[k].id \in Ids(scene_objects)

\* the camera target moved by minus the pointer delta over the zoom
Panned(cam, from, to, z) ==
    <<cam[1] - OverZoom(to[1] - from[1], z), cam[2] - OverZoom(to[2] - from[2], z)>>

\* C12: over the pan & zoom section of a frame, with the button and pointer
\* it was given: the dragging flag ends equal to the secondary button; a
\* frame entering Panning takes the pointer position as its reference and
\* leaves the camera target where it was; a frame that starts in Panning
\* moves the camera target by minus the pointer delta over the zoom and
\* takes the pointer position as the new reference; a frame that starts
\* Idle with the button up moves nothing.  Where the frame has no pointer
\* position, reference and camera target stay as they were.
C12_PanStateMachine ==
    last.op = "pan" =>
        LET b == last.arg.secondary_down
            p == last.arg.hover_pos
            was == last.pre
        IN  /\ dragging = b
            /\ (~was.dragging /\ b) =>
                  /\ dragging
                  /\ last_pointer = (IF p # NoPos THEN p ELSE was.last_pointer)
                  /\ camera_target = was.camera_target
            /\ was.dragging =>
                  /\ b => dragging
                  /\ ~b => ~dragging
                  /\ p # NoPos =>
                        /\ camera_target =
                              Panned(was.camera_target, was.last_pointer, p, zoom)
                        /\ last_pointer = p
                  /\ p = NoPos =>
                        /\ camera_target = was.camera_target
                        /\ last_pointer = was.last_pointer
            /\ (~was.dragging /\ ~b) =>
                  /\ camera_target = was.camera_target
                  /\ last_pointer = was.last_pointer

\* a frame in Panning, the button still down, has moved the camera target
C12_Witness ==
    /\ last.op = "pan"
    /\ last.pre.dragging /\ last.arg.secondary_down /\ dragging
    /\ last.arg.hover_pos # NoPos
    /\ camera_target # last.pre.camera_target
    /\ last_pointer = last.arg.hover_pos

\* a frame in Panning, the button up, has returned to Idle
C12_WitnessRelease ==
    /\ last.op = "pan"
    /\ last.pre.dragging /\ ~last.arg.secondary_down /\ ~dragging

\* C13: the zoom is within [0.1, 2.0] in every state, panning or not, so
\* the zoom a pan delta is divided by is never zero.
C13_ZoomClamped ==
    /\ ZoomMin <= zoom /\ zoom <= ZoomMax
    /\ zoom # 0

\* a scroll past the upper end was clamped in a frame that was panning
C13_Witness ==
    /\ last.op = "pan"
    /\ last.pre.dragging /\ last.arg.hover_pos # NoPos
    /\ last.pre.zoom + last.arg.scroll > ZoomMax
    /\ zoom = ZoomMax

\* a scroll past the lower end was clamped
C13_WitnessLow ==
    /\ last.op = "pan"
    /\ last.pre.zoom + last.arg.scroll < ZoomMin
    /\ zoom = ZoomMin

\* a node turning at 90 degrees a second, at rest, with a child and a
\* grandchild like it
Spinner ==
    LET n(id, kids) == [SceneObject_new(id, "New Node", "Triangle", "WHITE")
                          EXCEPT !.rotation_speed = 90, !.children = kids]
    IN  n(1, <<n(2, <<n(3, <<>>)>>)>>)

\* C14: animate adds rotation_speed * dt to the current_rotation of the node
\* and of every descendant, once each, and changes no other attribute, no id
\* and not the structure; at 90 degrees a second, half a second gives 45
\* degrees at every depth.
C14_AnimateTurnsEveryNodeOnce ==
    /\ last.op = "animate" =>
          /\ Placement(scene_objects) = Placement(last.pre)
          /\ Len(PreOrder(scene_objects)) = Len(PreOrder(last.pre))
          /\ AttrsOf(scene_objects) =
                {[a EXCEPT !.current_rotation = @ + a.rotation_speed * last.arg] :
                    a \in AttrsOf(last.pre)}
    /\ {a.current_rotation : a \in AttrsOf(<<animate(Spinner, 30)>>)}
          = {45 * FRAMES_PER_SECOND}

\* animate ran for half a second on a forest with a node two levels down
C14_Witness ==
    /\ last.op = "animate" /\ last.arg = 30
    /\ \E o \in Nodes(last.pre) :
          \E c \in Range(o.children) : c.children # <<>>
    /\ scene_objects # last.pre

\* the entry of a node in a placement
PlaceOf(pl, i) == CHOOSE e \in pl : e[1] = i

RECURSIVE DepthOf(_, _)
\* the number of ancestors of a node
DepthOf(pl, i) ==
    IF PlaceOf(pl, i)[2] = None THEN 0 ELSE 1 + DepthOf(pl, PlaceOf(pl, i)[2])

\* the running cursor when node i is visited: where the sibling (or root)
\* before it left it, else the y its parent started at, else the top
CursorAt(pl, call, i) ==
    LET e == PlaceOf(pl, i)
    IN  IF e[3] # <<>> THEN call[e[3][Len(e[3])]].cur_out
        ELSE IF e[2] # None THEN call[e[2]].y
        ELSE RootY

Leaves(v) == {o \in Nodes(v) : o.children = <<>>}

\* C15: a childless node is placed at x = root origin + depth * XS and at
\* y = the running cursor handed to its call, and the call leaves the cursor
\* exactly YS further.
C15_LeafAtCursor ==
    pc = "laid" =>
        \A o \in Leaves(scene_objects) :
            LET c == layout.call[o.id]
                pl == Placement(scene_objects)
            IN  /\ c.cur = CursorAt(pl, layout.call, o.id)
                /\ layout.pos[o.id] = <<RootX + DepthOf(pl, o.id) * XS, c.cur>>
                /\ c.cur_out = c.cur + YS

\* a layout was built in which a childless node below a root follows a
\* sibling
C15_Witness ==
    /\ pc = "laid"
    /\ \E o \in Leaves(scene_objects) :
          /\ DepthOf(Placement(scene_objects), o.id) >= 1
          /\ PlaceOf(Placement(scene_objects), o.id)[3] # <<>>
          /\ layout.pos[o.id][2] > RootY

\* C16: when a frame has ended the selection is None or the id of a node of
\* the forest, and a click accepted by the canvas at a world point within
\* the hit radius of no node has set the selection to None.
C16_SelectionNeverDangles ==
    /\ pc = "pan_zoom" =>
          (active_settings_id = None \/ active_settings_id \in Ids(scene_objects))
    /\ (last.op = "click"
          /\ \A n \in DOMAIN layout.pos : ~Within(last.arg, layout.pos[n])) =>
          active_settings_id = None

\* a frame has ended in which the selected node was deleted
C16_Witness ==
    /\ pc = "pan_zoom"
    /\ last.op = "process"
    /\ \E k \in DOMAIN last.log :
          /\ last.log[k].req.kind = "DeleteNode" /\ last.log[k].found
          /\ last.log[k].req.id \notin Ids(scene_objects)
    /\ active_settings_id = None

\* with a node selected, a click that hit no node has cleared the selection
C16_WitnessMiss ==
    /\ last.op = "click"
    /\ last.pre # None
    /\ \A n \in DOMAIN layout.pos : ~Within(last.arg, layout.pos[n])
    /\ active_settings_id = None

\* the queues a frame's inspector can leave for a selected node i
FrameQueues(i) ==
    {<<>>, <<AddChildReq(i)>>, <<DeleteNodeReq(i)>>,
     <<AddChildReq(i), DeleteNodeReq(i)>>}

\* C17: the queue a frame drains holds requests for one node of the forest
\* only, at most one AddChild and at most one DeleteNode, the AddChild
\* first; every request drained finds its target, and every AddChild
\* drained creates a node.
C17_DrainedRequestsFindTarget ==
    /\ (pc = "drain" /\ requests # <<>>) =>
          \E i \in Ids(scene_objects) : requests \in FrameQueues(i)
    /\ (pc = "pan_zoom" /\ last.op = "process") =>
          \A k \in DOMAIN last.log :
              /\ last.log[k].found
              /\ last.log[k].req.kind = "AddChild" =>
                    /\ last.log[k].new_id # None
                    /\ last.log[k].new_id \in Ids(last.log[k].after)

\* a frame has drained an AddChild and a DeleteNode for the same node
C17_Witness ==
    /\ pc = "pan_zoom"
    /\ last.op = "process"
    /\ Len(last.log) = 2
    /\ last.log[1].req.kind = "AddChild" /\ last.log[1].found
    /\ last.log[2].req.kind = "DeleteNode" /\ last.log[2].found
    /\ last.log[1].req.id = last.log[2].req.id

\* the nodes whose hit circle holds the world point w
Matching(pos, w) == {n \in DOMAIN pos : Within(w, pos[n])}

\* the squared distance of two anchors
Dist2(p, q) ==
    (p[1] - q[1]) * (p[1] - q[1]) + (p[2] - q[2]) * (p[2] - q[2])

\* C18: in a layout of any forest, two distinct nodes of the same depth lie
\* at least YS apart vertically and two nodes of different depths at least
\* XS apart horizontally, so no two nodes share an anchor and no two hit
\* circles overlap; a world point handed to the hit-test is within the
\* hit radius of at most one node.
C18_AnchorsApart ==
    /\ pc = "laid" =>
          LET pl == Placement(scene_objects)
          IN  \A a, b \in Ids(scene_objects) :
                  a # b =>
                      LET p == layout.pos[a]
                          q == layout.pos[b]
                      IN  /\ DepthOf(pl, a) = DepthOf(pl, b) =>
                                (p[2] - q[2] >= YS \/ q[2] - p[2] >= YS)
                          /\ DepthOf(pl, a) # DepthOf(pl, b) =>
                                (p[1] - q[1] >= XS \/ q[1] - p[1] >= XS)
                          /\ p # q
                          /\ Dist2(p, q) >= (2 * HitRadius) * (2 * HitRadius)
    /\ last.op = "hit" => Cardinality(Matching(layout.pos, last.arg)) <= 1

\* a layout of a forest with two nodes of one depth and a node of another
\* was built, and a point within the hit radius of one of them was tested
C18_Witness ==
    /\ pc = "done"
    /\ last.op = "hit"
    /\ Cardinality(Matching(layout.pos, last.arg)) = 1
    /\ LET pl == Placement(scene_objects)
       IN  \E a, b, c \in Ids(scene_objects) :
               /\ a # b
               /\ DepthOf(pl, a) = DepthOf(pl, b)
               /\ DepthOf(pl, c) # DepthOf(pl, a)

====
